---- MODULE Spec2Model ----
(***************************************************************************)
(* State-machine model of flux.                                            *)
(*                                                                         *)
(* Spec: the noise pipeline (crates/flux/src/noise.rs): NoiseChannel,      *)
(* NoiseInjector and their operations add_noise, update_channel, tick,     *)
(* generate_all, generate_by_channel_number and blend_noise_into.          *)
(* An f32 of the noise pipeline is modelled as an exact rational <<n, d>>  *)
(* in lowest terms with d > 0.  Offsets and increments are drawn from      *)
(* dyadic values, on which f32 addition is exact; f32 rounding of other    *)
(* values is not modelled there.  Configurations have a finite             *)
(* blend_duration > 0.                                                     *)
(*                                                                         *)
(* GridSpec: the pure function compute_grid_size (flux/src/drawer.rs),     *)
(* computed in IEEE-754 binary32 with round-to-nearest-even, applied to    *)
(* screen sizes drawn from a bounded set.                                  *)
(*                                                                         *)
(* DrawerSpec: the line Drawer (flux/src/drawer.rs): new, update_settings, *)
(* resize, place_lines, draw_lines and draw_endpoints, each as the         *)
(* sequence of GL calls it issues, run on a model of the GL context.       *)
(*                                                                         *)
(* Each specification holds the variables of the other two constant.       *)
(***************************************************************************)
EXTENDS Integers, Sequences, FiniteSets, TLC

(* ----------------------------- bounds --------------------------------- *)

\* most channels add_noise is allowed to create
MaxChannels == 2

\* most operations in one behaviour
MaxOps == 4

(* ------------------------- f32 arithmetic ----------------------------- *)

Abs(x) == IF x < 0 THEN -x ELSE x

RECURSIVE Gcd(_, _)
Gcd(a, b) == IF b = 0 THEN a ELSE Gcd(b, a % b)

\* the rational n/d (d > 0) in lowest terms
F32(n, d) == LET g == Gcd(Abs(n), d) IN <<n \div g, d \div g>>

Zero == F32(0, 1)
One == F32(1, 1)

\* `w as f32` for a u32
FromU32(w) == F32(w, 1)

fadd(a, b) == F32(a[1] * b[2] + b[1] * a[2], a[2] * b[2])
fsub(a, b) == F32(a[1] * b[2] - b[1] * a[2], a[2] * b[2])

\* a / b for b # 0
fdiv(a, b) ==
    IF b[1] > 0 THEN F32(a[1] * b[2], a[2] * b[1])
    ELSE F32(-(a[1] * b[2]), a[2] * (-b[1]))

fge(a, b) == a[1] * b[2] >= b[1] * a[2]
flt(a, b) == a[1] * b[2] < b[1] * a[2]
fgt(a, b) == a[1] * b[2] > b[1] * a[2]

\* f32::clamp
clamp(x, lo, hi) == IF flt(x, lo) THEN lo ELSE IF fgt(x, hi) THEN hi ELSE x

\* the literal 1.0 - 0.0001 of blend_noise_into
BlendDone == fsub(One, F32(1, 10000))

(* ----------------------------- inputs --------------------------------- *)

\* settings::Noise values handed to add_noise and update_channel
NoiseA ==
    [scale |-> F32(1, 1), offset_1 |-> F32(0, 1), offset_2 |-> F32(1, 2),
     multiplier |-> F32(1, 4), blend_threshold |-> F32(1, 2),
     offset_increment |-> F32(1, 4), delay |-> F32(1, 2),
     blend_duration |-> F32(1, 1), blend_method |-> "Curl"]

NoiseB ==
    [scale |-> F32(2, 1), offset_1 |-> F32(1, 4), offset_2 |-> F32(3, 4),
     multiplier |-> F32(1, 2), blend_threshold |-> F32(1, 4),
     offset_increment |-> F32(1, 8), delay |-> F32(0, 1),
     blend_duration |-> F32(2, 1), blend_method |-> "Wiggle"]

Configs == {NoiseA, NoiseB}

\* elapsed_time arguments (seconds)
Times == {F32(0, 1), F32(3, 10), F32(3, 5), F32(9999, 10000), F32(10001, 10000)}

\* (width, height) handed to NoiseInjector::new
Sizes == {<<2, 2>>, <<4, 2>>}

\* outcomes of the three fallible allocations of add_noise
AllocOutcomes == {"ok", "Framebuffer::new", "with_f32_data", "Buffer::from_f32"}

(* ------------------------------ state --------------------------------- *)

VARIABLES
    width,      \* NoiseInjector.width
    height,     \* NoiseInjector.height
    channels,   \* NoiseInjector.channels: Seq of NoiseChannel
    log,        \* GL draws and ticks issued by the last operation, in order
    op,         \* the last operation: its name, arguments and result
    hist,       \* per channel: ticks since add_noise, update_channel seen,
                \* time of the first fully-blended skip of the blend cycle,
                \* sum of the blend weights drawn since the last tick
    times,      \* last elapsed_time argument and whether they never decreased
    ops         \* number of operations so far

vars == <<width, height, channels, log, op, hist, times, ops>>

VARIABLES
    grid_in,    \* (width, height) handed to compute_grid_size
    grid_out    \* what compute_grid_size returned for grid_in, <<>> before that

grid_vars == <<grid_in, grid_out>>

VARIABLES
    drawer,     \* the fields of Drawer
    gl,         \* the GL context: capabilities, bindings and buffer objects
    gl_log,     \* GL calls issued by the last Drawer operation, in order
    drawer_op,  \* the last Drawer operation: its name and arguments
    drawer_ops  \* number of Drawer operations so far

drawer_vars == <<drawer, gl, gl_log, drawer_op, drawer_ops>>

\* the values of a specification's variables under the other specifications
NoiseIdle ==
    /\ width = 0
    /\ height = 0
    /\ channels = <<>>
    /\ log = <<>>
    /\ op = <<>>
    /\ hist = <<>>
    /\ times = <<>>
    /\ ops = 0

GridIdle == grid_in = <<>> /\ grid_out = <<>>

DrawerIdle ==
    /\ drawer = <<>>
    /\ gl = <<>>
    /\ gl_log = <<>>
    /\ drawer_op = <<>>
    /\ drawer_ops = 0

\* marks "no time yet"
NoTime == <<0, 0>>

(* ------------------------ NoiseUniforms buffer ------------------------ *)

\* bytemuck::bytes_of(&NoiseUniforms {..}) as 8 f32 words, in field order
NoiseUniforms(noise, w, h) ==
    << noise.scale, noise.offset_1, noise.offset_2, noise.multiplier,
       fdiv(One, FromU32(w)), fdiv(One, FromU32(h)),
       noise.blend_threshold, Zero >>

\* buffer_sub_data_u8_slice(target, byte_offset, data) on a buffer of f32 words
buffer_sub_data(buf, byte_offset, data) ==
    [i \in 1..Len(buf) |->
        IF i - 1 >= byte_offset \div 4 /\ i - 1 < byte_offset \div 4 + Len(data)
        THEN data[i - byte_offset \div 4]
        ELSE buf[i]]

\* vec![0.0; width * height * 2] uploaded into a new RG32F texture
ZeroTexture(w, h) ==
    [width |-> w, height |-> h, shader |-> "none", uniforms |-> <<>>]

(* ----------------------------- NoiseChannel --------------------------- *)

\* tick that forgets to reset last_blend_progress
tick_keeps_progress(ch, elapsed_time) ==
    LET o1 == fadd(ch.offset1, ch.noise.offset_increment)
        o2 == fadd(ch.offset2, ch.noise.offset_increment)
    IN  [ch EXCEPT !.blend_begin_time = elapsed_time,
                   !.offset1 = o1,
                   !.offset2 = o2,
                   !.uniforms = buffer_sub_data(@, 1 * 4, <<o1, o2>>)]

\* tick that advances offset1 only
tick_one_offset(ch, elapsed_time) ==
    LET o1 == fadd(ch.offset1, ch.noise.offset_increment)
        o2 == ch.offset2
    IN  [ch EXCEPT !.blend_begin_time = elapsed_time,
                   !.last_blend_progress = Zero,
                   !.offset1 = o1,
                   !.offset2 = o2,
                   !.uniforms = buffer_sub_data(@, 1 * 4, <<o1, o2>>)]

\* tick that writes the offsets at byte 0 of the uniform buffer
tick_writes_at_0(ch, elapsed_time) ==
    LET o1 == fadd(ch.offset1, ch.noise.offset_increment)
        o2 == fadd(ch.offset2, ch.noise.offset_increment)
    IN  [ch EXCEPT !.blend_begin_time = elapsed_time,
                   !.last_blend_progress = Zero,
                   !.offset1 = o1,
                   !.offset2 = o2,
                   !.uniforms = buffer_sub_data(@, 0 * 4, <<o1, o2>>)]

\* NoiseChannel::tick
tick(ch, elapsed_time) ==
    LET o1 == fadd(ch.offset1, ch.noise.offset_increment)
        o2 == fadd(ch.offset2, ch.noise.offset_increment)
    IN  [ch EXCEPT !.blend_begin_time = elapsed_time,
                   !.last_blend_progress = Zero,
                   !.offset1 = o1,
                   !.offset2 = o2,
                   !.uniforms = buffer_sub_data(@, 1 * 4, <<o1, o2>>)]

TickEvent(i, elapsed_time) ==
    [ev |-> "tick", channel |-> i, elapsed_time |-> elapsed_time]

(* ---------------------------- NoiseInjector --------------------------- *)

\* a lookup that clamps the index to the last channel
get_mut_clamped(chs, channel_number) ==
    IF Len(chs) = 0 THEN {}
    ELSE IF channel_number < Len(chs) THEN {channel_number + 1} ELSE {Len(chs)}

\* self.channels.get_mut(channel_number): the 1-based position of the channel,
\* as a set (empty for None)
get_mut(chs, channel_number) ==
    IF channel_number < Len(chs) THEN {channel_number + 1} ELSE {}

\* update_channel that rewrites the buffer but keeps the old config
update_channel_keeps_config(chs, channel_number, noise, w, h) ==
    LET found == get_mut(chs, channel_number) IN
    IF found = {} THEN chs
    ELSE LET i == CHOOSE i \in found : TRUE IN
         [chs EXCEPT ![i] =
            [@ EXCEPT !.uniforms = buffer_sub_data(@, 0, NoiseUniforms(noise, w, h))]]

\* NoiseInjector::update_channel
update_channel(chs, channel_number, noise, w, h) ==
    LET found == get_mut(chs, channel_number) IN
    IF found = {} THEN chs
    ELSE LET i == CHOOSE i \in found : TRUE IN
         [chs EXCEPT ![i] =
            [@ EXCEPT !.noise = noise,
                      !.uniforms = buffer_sub_data(@, 0, NoiseUniforms(noise, w, h))]]

\* the NoiseChannel pushed by add_noise
new_channel(noise, w, h) ==
    [noise |-> noise,
     texture |-> ZeroTexture(w, h),
     blend_begin_time |-> Zero,
     last_blend_progress |-> Zero,
     offset1 |-> noise.offset_1,
     offset2 |-> noise.offset_2,
     uniforms |-> NoiseUniforms(noise, w, h)]

\* add_noise that puts the new channel in front of the others
add_noise_prepends(chs, noise, w, h, outcome) ==
    IF outcome = "ok" THEN <<new_channel(noise, w, h)>> \o chs ELSE chs

\* add_noise that pushes the channel before it allocates the uniform buffer
add_noise_pushes_early(chs, noise, w, h, outcome) ==
    IF outcome \in {"ok", "Buffer::from_f32"}
    THEN Append(chs, new_channel(noise, w, h))
    ELSE chs

\* NoiseInjector::add_noise; `?` returns early on a failed allocation
add_noise(chs, noise, w, h, outcome) ==
    IF outcome = "ok" THEN Append(chs, new_channel(noise, w, h)) ELSE chs

\* a throttle that compares with > instead of >=
should_generate_strict(ch, elapsed_time) ==
    LET time_since_last_update == fsub(elapsed_time, ch.blend_begin_time)
    IN  fgt(time_since_last_update, ch.noise.delay)

\* the throttle of generate_all
should_generate(ch, elapsed_time) ==
    LET time_since_last_update == fsub(elapsed_time, ch.blend_begin_time)
    IN  fge(time_since_last_update, ch.noise.delay)

\* channel.texture.draw_to(.. draw_elements ..) with generate_noise_pass and
\* the channel's uniform buffer bound at binding point 3
draw_noise(ch) ==
    [ch EXCEPT !.texture = [@ EXCEPT !.shader = "simplex_noise",
                                     !.uniforms = ch.uniforms]]

GenerateEvent(i, ch) ==
    [ev |-> "draw", pass |-> "generate", channel |-> i,
     program |-> "simplex_noise", uniforms |-> ch.uniforms]

\* a generation pass that ticks the channel first and draws afterwards
generate_channel_tick_first(acc, i, elapsed_time) ==
    LET ch == tick(acc.channels[i], elapsed_time) IN
    [channels |-> [acc.channels EXCEPT ![i] = draw_noise(ch)],
     log |-> acc.log \o <<TickEvent(i - 1, elapsed_time), GenerateEvent(i - 1, ch)>>]

\* the generation pass of one channel followed by its tick
generate_channel(acc, i, elapsed_time) ==
    LET ch == acc.channels[i] IN
    [channels |-> [acc.channels EXCEPT ![i] = tick(draw_noise(ch), elapsed_time)],
     log |-> acc.log \o <<GenerateEvent(i - 1, ch), TickEvent(i - 1, elapsed_time)>>]

\* for channel in self.channels.iter_mut() { .. } of generate_all, from index i
RECURSIVE generate_from(_, _, _)
generate_from(acc, i, elapsed_time) ==
    IF i > Len(acc.channels) THEN acc
    ELSE generate_from(
            IF should_generate(acc.channels[i], elapsed_time)
            THEN generate_channel(acc, i, elapsed_time)
            ELSE acc,
            i + 1, elapsed_time)

\* NoiseInjector::generate_all
generate_all(chs, elapsed_time) ==
    generate_from([channels |-> chs, log |-> <<>>], 1, elapsed_time)

\* NoiseInjector::generate_by_channel_number
generate_by_channel_number(chs, channel_number, elapsed_time) ==
    LET found == get_mut(chs, channel_number) IN
    IF found = {} THEN [channels |-> chs, log |-> <<>>]
    ELSE generate_channel([channels |-> chs, log |-> <<>>],
                          CHOOSE i \in found : TRUE, elapsed_time)

\* the blend_progress of blend_noise_into
blend_progress(ch, elapsed_time) ==
    clamp(fdiv(fsub(elapsed_time, ch.blend_begin_time), ch.noise.blend_duration),
          Zero, One)

\* if blend_progress >= 1.0 - 0.0001 { continue; }
fully_blended(progress) == fge(progress, BlendDone)

\* the absolute progress used as the blend weight
delta_blend_progress_absolute(ch, progress) == progress

delta_blend_progress(ch, progress) == fsub(progress, ch.last_blend_progress)

\* match channel.noise.blend_method
blend_pass(ch) ==
    IF ch.noise.blend_method = "Curl" THEN "blend_with_curl" ELSE "blend_with_wiggle"

BlendEvent(i, ch, progress) ==
    [ev |-> "draw", pass |-> "blend", channel |-> i,
     program |-> blend_pass(ch),
     uBlendProgress |-> delta_blend_progress(ch, progress),
     uniforms |-> ch.uniforms,
     noiseTexture |-> ch.texture]

\* a blend that draws but does not store the progress it reached
blend_channel_forgets_progress(acc, i, elapsed_time) ==
    LET ch == acc.channels[i]
        progress == blend_progress(ch, elapsed_time)
    IN  IF fully_blended(progress) THEN acc
        ELSE [channels |-> acc.channels,
              log |-> Append(acc.log, BlendEvent(i - 1, ch, progress))]

\* the blend of one channel into the target
blend_channel(acc, i, elapsed_time) ==
    LET ch == acc.channels[i]
        progress == blend_progress(ch, elapsed_time)
    IN  IF fully_blended(progress) THEN acc
        ELSE [channels |-> [acc.channels EXCEPT ![i] =
                                [@ EXCEPT !.last_blend_progress = progress]],
              log |-> Append(acc.log, BlendEvent(i - 1, ch, progress))]

\* for channel in self.channels.iter_mut() { .. } of blend_noise_into, from index i
RECURSIVE blend_from(_, _, _)
blend_from(acc, i, elapsed_time) ==
    IF i > Len(acc.channels) THEN acc
    ELSE blend_from(blend_channel(acc, i, elapsed_time), i + 1, elapsed_time)

\* NoiseInjector::blend_noise_into
blend_noise_into(chs, elapsed_time) ==
    blend_from([channels |-> chs, log |-> <<>>], 1, elapsed_time)

(* ------------------------- observation state -------------------------- *)

Ticked(events, i) ==
    \E k \in 1..Len(events) : events[k].ev = "tick" /\ events[k].channel = i - 1

Drawn(events, i, pass) ==
    \E k \in 1..Len(events) :
        /\ events[k].ev = "draw"
        /\ events[k].pass = pass
        /\ events[k].channel = i - 1

NewHist == [ticks |-> 0, updated |-> FALSE, done_at |-> NoTime, weight |-> Zero]

\* the blend weight (uBlendProgress) of the blend draw of channel i in events
BlendWeight(events, i) ==
    LET k == CHOOSE k \in 1..Len(events) :
                /\ events[k].ev = "draw"
                /\ events[k].pass = "blend"
                /\ events[k].channel = i - 1
    IN  events[k].uBlendProgress

\* hist after an operation that issued `events` on the channels `chs`
HistAfter(h, chs, events, name, elapsed_time) ==
    [i \in 1..Len(h) |->
        IF Ticked(events, i)
        THEN [h[i] EXCEPT !.ticks = @ + 1, !.done_at = NoTime, !.weight = Zero]
        ELSE IF /\ name = "blend_noise_into"
                /\ h[i].done_at = NoTime
                /\ fully_blended(blend_progress(chs[i], elapsed_time))
             THEN [h[i] EXCEPT !.done_at = elapsed_time]
             ELSE IF Drawn(events, i, "blend")
                  THEN [h[i] EXCEPT !.weight = fadd(@, BlendWeight(events, i))]
                  ELSE h[i]]

TimesAfter(elapsed_time) ==
    [last |-> elapsed_time,
     monotone |-> times.monotone /\ (times.last = NoTime \/ fge(elapsed_time, times.last))]

(* ------------------------------ actions ------------------------------- *)

Init ==
    /\ \E s \in Sizes : width = s[1] /\ height = s[2]
    /\ channels = <<>>
    /\ log = <<>>
    /\ op = [name |-> "new"]
    /\ hist = <<>>
    /\ times = [last |-> NoTime, monotone |-> TRUE]
    /\ ops = 0
    /\ GridIdle
    /\ DrawerIdle

AddNoise ==
    \E noise \in Configs, outcome \in AllocOutcomes :
        /\ ops < MaxOps
        /\ Len(channels) < MaxChannels
        /\ channels' = add_noise(channels, noise, width, height, outcome)
        /\ log' = <<>>
        /\ op' = [name |-> "add_noise", noise |-> noise, outcome |-> outcome,
                  result |-> IF outcome = "ok" THEN "Ok" ELSE "Err"]
        /\ hist' = IF outcome = "ok" THEN Append(hist, NewHist) ELSE hist
        /\ ops' = ops + 1
        /\ UNCHANGED <<grid_vars, drawer_vars, width, height, times>>

UpdateChannel ==
    \E channel_number \in 0..MaxChannels, noise \in Configs :
        /\ ops < MaxOps
        /\ channels' = update_channel(channels, channel_number, noise, width, height)
        /\ log' = <<>>
        /\ op' = [name |-> "update_channel", channel_number |-> channel_number,
                  noise |-> noise, result |-> "Ok"]
        /\ hist' = [i \in 1..Len(hist) |->
                        IF i \in get_mut(channels, channel_number)
                        THEN [hist[i] EXCEPT !.updated = TRUE] ELSE hist[i]]
        /\ ops' = ops + 1
        /\ UNCHANGED <<grid_vars, drawer_vars, width, height, times>>

Tick ==
    \E i \in 1..Len(channels), elapsed_time \in Times :
        /\ ops < MaxOps
        /\ channels' = [channels EXCEPT ![i] = tick(@, elapsed_time)]
        /\ log' = <<TickEvent(i - 1, elapsed_time)>>
        /\ op' = [name |-> "tick", channel_number |-> i - 1,
                  elapsed_time |-> elapsed_time, result |-> "Ok"]
        /\ hist' = HistAfter(hist, channels, log', "tick", elapsed_time)
        /\ times' = TimesAfter(elapsed_time)
        /\ ops' = ops + 1
        /\ UNCHANGED <<grid_vars, drawer_vars, width, height>>

GenerateAll ==
    \E elapsed_time \in Times :
        LET r == generate_all(channels, elapsed_time) IN
        /\ ops < MaxOps
        /\ channels' = r.channels
        /\ log' = r.log
        /\ op' = [name |-> "generate_all", elapsed_time |-> elapsed_time,
                  result |-> "Ok"]
        /\ hist' = HistAfter(hist, channels, r.log, "generate_all", elapsed_time)
        /\ times' = TimesAfter(elapsed_time)
        /\ ops' = ops + 1
        /\ UNCHANGED <<grid_vars, drawer_vars, width, height>>

GenerateByChannelNumber ==
    \E channel_number \in 0..MaxChannels, elapsed_time \in Times :
        LET r == generate_by_channel_number(channels, channel_number, elapsed_time) IN
        /\ ops < MaxOps
        /\ channels' = r.channels
        /\ log' = r.log
        /\ op' = [name |-> "generate_by_channel_number",
                  channel_number |-> channel_number,
                  elapsed_time |-> elapsed_time, result |-> "Ok"]
        /\ hist' = HistAfter(hist, channels, r.log, "generate_by_channel_number",
                             elapsed_time)
        /\ times' = TimesAfter(elapsed_time)
        /\ ops' = ops + 1
        /\ UNCHANGED <<grid_vars, drawer_vars, width, height>>

BlendNoiseInto ==
    \E elapsed_time \in Times :
        LET r == blend_noise_into(channels, elapsed_time) IN
        /\ ops < MaxOps
        /\ channels' = r.channels
        /\ log' = r.log
        /\ op' = [name |-> "blend_noise_into", elapsed_time |-> elapsed_time,
                  result |-> "Ok"]
        /\ hist' = HistAfter(hist, channels, r.log, "blend_noise_into", elapsed_time)
        /\ times' = TimesAfter(elapsed_time)
        /\ ops' = ops + 1
        /\ UNCHANGED <<grid_vars, drawer_vars, width, height>>

Next ==
    \/ AddNoise
    \/ UpdateChannel
    \/ Tick
    \/ GenerateAll
    \/ GenerateByChannelNumber
    \/ BlendNoiseInto

Spec == Init /\ [][Next]_vars

(* ------------------------------ claims -------------------------------- *)

\* C1: generate_all(t) runs a channel's generation pass (the draw into its
\* texture, then tick(c, t)) exactly when t - blend_begin_time >= delay, and a
\* channel it skips is left unchanged in every field.
C1_GenerateAllThrottle ==
    [][op'.name = "generate_all" =>
        \A i \in 1..Len(channels) :
            LET c == channels[i]
                t == op'.elapsed_time
                due == fge(fsub(t, c.blend_begin_time), c.noise.delay)
                ran == Drawn(log', i, "generate") /\ Ticked(log', i)
            IN  /\ due <=> ran
                /\ due => /\ channels'[i].blend_begin_time = t
                          /\ channels'[i].texture.shader = "simplex_noise"
                          /\ channels'[i].texture.uniforms = c.uniforms
                /\ ~due => /\ channels'[i] = c
                           /\ ~Drawn(log', i, "generate")
                           /\ ~Ticked(log', i)]_vars

\* C1 witness: one generate_all(0.6) that executes a channel with delay 0.5
\* (blend_begin_time becomes 0.6) and skips another one
C1_Witness ==
    /\ op.name = "generate_all"
    /\ op.elapsed_time = F32(3, 5)
    /\ \E i, j \in 1..Len(channels) :
        /\ channels[i].noise.delay = F32(1, 2)
        /\ Drawn(log, i, "generate")
        /\ channels[i].blend_begin_time = F32(3, 5)
        /\ channels[j].noise.delay = F32(1, 2)
        /\ ~Drawn(log, j, "generate")
        /\ channels[j].blend_begin_time = F32(3, 10)

\* C2: generate_by_channel_number(h, t) on a valid handle runs the generation
\* pass and the tick only if t - blend_begin_time >= delay, and otherwise
\* leaves the channel unchanged.
C2_GenerateByNumberThrottled ==
    [][(op'.name = "generate_by_channel_number"
            /\ op'.channel_number < Len(channels)) =>
        LET i == op'.channel_number + 1
            c == channels[i]
            due == fge(fsub(op'.elapsed_time, c.blend_begin_time), c.noise.delay)
        IN  /\ (Drawn(log', i, "generate") \/ Ticked(log', i)) => due
            /\ ~due => channels'[i] = c]_vars

\* C3: tick sets blend_begin_time = t and last_blend_progress = 0 together, and
\* only a tick changes blend_begin_time: a step that changes a channel's
\* blend_begin_time ticked it and leaves its last_blend_progress at 0.
C3_TickResetsBlend ==
    [][\A i \in 1..Len(channels) :
        /\ Ticked(log', i) =>
            /\ channels'[i].blend_begin_time = op'.elapsed_time
            /\ channels'[i].last_blend_progress = Zero
        /\ channels'[i].blend_begin_time # channels[i].blend_begin_time =>
            /\ Ticked(log', i)
            /\ channels'[i].last_blend_progress = Zero]_vars

\* C3 witness: a channel ticked for the second time, now at 0.6, stands at
\* blend_begin_time 0.6 and last_blend_progress 0
C3_Witness ==
    \E i \in 1..Len(channels) :
        /\ Ticked(log, i)
        /\ hist[i].ticks = 2
        /\ channels[i].blend_begin_time = F32(3, 5)
        /\ channels[i].last_blend_progress = Zero

C5_TickWritesOffsetsOnly ==
    [][\A i \in 1..Len(channels) :
        /\ Ticked(log', i) =>
            /\ Len(channels'[i].uniforms) = 8
            /\ \A w \in {1, 4, 5, 6, 7, 8} :
                    channels'[i].uniforms[w] = channels[i].uniforms[w]
            /\ channels'[i].noise = channels[i].noise
        /\ (op'.name = "tick" /\ Ticked(log', i)) =>
            /\ channels'[i].texture = channels[i].texture
            /\ Len(channels') = Len(channels)
            /\ \A j \in 1..Len(channels) : j # i => channels'[j] = channels[j]]_vars

\* C5 witness: with two channels, one has been ticked twice and its offset
\* words differ from those of its config
C5_Witness ==
    /\ Len(channels) = 2
    /\ op.name = "tick"
    /\ \E i \in 1..Len(channels) :
        /\ Ticked(log, i)
        /\ hist[i].ticks = 2
        /\ channels[i].uniforms[2] # channels[i].noise.offset_1

\* C6: in blend_noise_into(target, t) a channel whose progress
\* clamp((t - blend_begin_time) / blend_duration, 0, 1) is >= 1 - 1e-4 issues no
\* draw and keeps last_blend_progress; and once a channel was seen at that point
\* it issues no blend draw at any later t until it is ticked.
C6_NoDrawOnceBlended ==
    [][op'.name = "blend_noise_into" =>
        \A i \in 1..Len(channels) :
            LET c == channels[i]
                t == op'.elapsed_time
                progress == clamp(fdiv(fsub(t, c.blend_begin_time),
                                       c.noise.blend_duration), Zero, One)
            IN  /\ fge(progress, fsub(One, F32(1, 10000))) =>
                    /\ ~Drawn(log', i, "blend")
                    /\ channels'[i].last_blend_progress = c.last_blend_progress
                /\ (hist[i].done_at # NoTime /\ fge(t, hist[i].done_at)) =>
                    ~Drawn(log', i, "blend")]_vars

\* C7: in blend_noise_into every channel whose progress is below 1 - 1e-4
\* issues exactly one draw, with uBlendProgress = progress minus the
\* last_blend_progress from before the call, by the curl program for Curl and
\* the wiggle program for Wiggle, and then has last_blend_progress = progress.
C7_BlendDelta ==
    [][op'.name = "blend_noise_into" =>
        \A i \in 1..Len(channels) :
            LET c == channels[i]
                t == op'.elapsed_time
                progress == clamp(fdiv(fsub(t, c.blend_begin_time),
                                       c.noise.blend_duration), Zero, One)
                draws == {k \in 1..Len(log') :
                            /\ log'[k].ev = "draw"
                            /\ log'[k].pass = "blend"
                            /\ log'[k].channel = i - 1}
            IN  flt(progress, fsub(One, F32(1, 10000))) =>
                    /\ Cardinality(draws) = 1
                    /\ \A k \in draws :
                        /\ log'[k].uBlendProgress = fsub(progress, c.last_blend_progress)
                        /\ c.noise.blend_method = "Curl" =>
                                log'[k].program = "blend_with_curl"
                        /\ c.noise.blend_method = "Wiggle" =>
                                log'[k].program = "blend_with_wiggle"
                    /\ channels'[i].last_blend_progress = progress]_vars

\* C7 witness: a second blend of a cycle: the draw's weight is positive and
\* smaller than the progress the channel now stands at
C7_Witness ==
    /\ op.name = "blend_noise_into"
    /\ \E k \in 1..Len(log) :
        /\ log[k].ev = "draw"
        /\ log[k].pass = "blend"
        /\ fgt(log[k].uBlendProgress, Zero)
        /\ flt(log[k].uBlendProgress,
               channels[log[k].channel + 1].last_blend_progress)

\* C8: between two ticks of a channel its last_blend_progress never decreases,
\* whatever blend_noise_into, update_channel and add_noise calls are made, as
\* long as the elapsed_time arguments never decrease.
C8_ProgressMonotoneInCycle ==
    [][times'.monotone =>
        \A i \in 1..Len(channels) :
            ~Ticked(log', i) =>
                fge(channels'[i].last_blend_progress,
                    channels[i].last_blend_progress)]_vars

\* C9: right after add_noise(config), and right after update_channel(h, config)
\* on a valid handle, the channel's config is config and its whole uniform
\* buffer is the NoiseUniforms record of config: frequency = scale, offset_1,
\* offset_2, multiplier, texel_size = (1/width, 1/height), blend_threshold,
\* pad = 0.
C9_BufferMatchesConfig ==
    LET record(noise) ==
            << noise.scale, noise.offset_1, noise.offset_2, noise.multiplier,
               F32(1, width), F32(1, height), noise.blend_threshold, F32(0, 1) >>
    IN  /\ (op.name = "add_noise" /\ op.result = "Ok") =>
            /\ channels[Len(channels)].noise = op.noise
            /\ channels[Len(channels)].uniforms = record(op.noise)
        /\ (op.name = "update_channel" /\ op.channel_number < Len(channels)) =>
            /\ channels[op.channel_number + 1].noise = op.noise
            /\ channels[op.channel_number + 1].uniforms = record(op.noise)

\* C9 witness: update_channel has replaced the config of a channel that had
\* been ticked, so the buffer's offset words were rewritten from the new config
C9_Witness ==
    /\ op.name = "update_channel"
    /\ op.channel_number < Len(channels)
    /\ hist[op.channel_number + 1].ticks > 0
    /\ channels[op.channel_number + 1].uniforms[2] = op.noise.offset_1
    /\ channels[op.channel_number + 1].offset1 # op.noise.offset_1

\* C10: update_channel(i, config) and generate_by_channel_number(i, t) with
\* i >= the number of channels change no channel, issue no draw and return
\* normally.
C10_InvalidIndexNoOp ==
    [][(/\ op'.name \in {"update_channel", "generate_by_channel_number"}
        /\ op'.channel_number >= Len(channels)) =>
            /\ channels' = channels
            /\ log' = <<>>
            /\ op'.result = "Ok"]_vars

\* C10 witness: generate_by_channel_number was called with an index past the
\* end of a non-empty channel list
C10_Witness ==
    /\ op.name = "generate_by_channel_number"
    /\ Len(channels) > 0
    /\ op.channel_number >= Len(channels)

\* C11: a successful add_noise appends exactly one channel at the end of the
\* list, with blend_begin_time = 0, last_blend_progress = 0, offset1 and
\* offset2 equal to the config's offset_1 and offset_2 and a zero-filled
\* width x height texture, and leaves every existing channel unchanged at its
\* index; every other operation keeps the length of the list and changes only
\* the channels it addresses, in place.
C11_AddNoiseAppends ==
    [][/\ (op'.name = "add_noise" /\ op'.result = "Ok") =>
            /\ Len(channels') = Len(channels) + 1
            /\ \A i \in 1..Len(channels) : channels'[i] = channels[i]
            /\ LET c == channels'[Len(channels')] IN
                /\ c.noise = op'.noise
                /\ c.blend_begin_time = Zero
                /\ c.last_blend_progress = Zero
                /\ c.offset1 = op'.noise.offset_1
                /\ c.offset2 = op'.noise.offset_2
                /\ c.texture = [width |-> width, height |-> height,
                                shader |-> "none", uniforms |-> <<>>]
       /\ ~(op'.name = "add_noise" /\ op'.result = "Ok") =>
            /\ Len(channels') = Len(channels)
            /\ \A i \in 1..Len(channels) :
                    \/ channels'[i] = channels[i]
                    \/ Ticked(log', i)
                    \/ Drawn(log', i, "blend")
                    \/ /\ op'.name = "update_channel"
                       /\ op'.channel_number = i - 1
                       /\ channels'[i].texture = channels[i].texture
                       /\ channels'[i].offset1 = channels[i].offset1]_vars

\* C11 witness: add_noise succeeded on a list whose first channel had been
\* ticked and carries the other config; the new channel is the second one
C11_Witness ==
    /\ op.name = "add_noise"
    /\ op.result = "Ok"
    /\ Len(channels) = 2
    /\ hist[1].ticks >= 1
    /\ hist[2].ticks = 0
    /\ channels[1].noise # op.noise
    /\ channels[2].noise = op.noise
    /\ channels[2].offset1 = op.noise.offset_1

\* C12: add_noise is all-or-nothing: when the texture allocation, the initial
\* fill or the uniform-buffer allocation fails it returns an error and the
\* channel list is exactly as before the call; it grows only on Ok.
C12_AddNoiseAllOrNothing ==
    [][op'.name = "add_noise" =>
        /\ op'.outcome \in {"Framebuffer::new", "with_f32_data", "Buffer::from_f32"}
                <=> op'.result = "Err"
        /\ op'.result = "Err" => channels' = channels
        /\ op'.result = "Ok" => Len(channels') = Len(channels) + 1]_vars

\* C12 witness: the uniform-buffer allocation, the last of the three, failed
\* on a list that already held a ticked channel
C12_Witness ==
    /\ op.name = "add_noise"
    /\ op.result = "Err"
    /\ op.outcome = "Buffer::from_f32"
    /\ Len(channels) = 1
    /\ hist[1].ticks >= 1

(* ======================== flux/src/drawer.rs ========================== *)

(* ------------------------------ bounds -------------------------------- *)

\* compute_grid_size is applied to every (width, height) in 1..MaxDim squared
MaxDim == 40

(* ------------------------ binary32 arithmetic ------------------------- *)

\* A positive binary32 value is <<m, e>>, standing for m * 2^e with
\* 2^23 <= m < 2^24: a 24-bit significand, as in IEEE-754 single precision.
\* Values are far from the exponent limits, so there are no subnormals,
\* infinities or NaNs here.

RECURSIVE Pow2(_)
Pow2(n) == IF n = 0 THEN 1 ELSE 2 * Pow2(n - 1)

\* round to nearest, ties to even: m is the significand cut off, r / q in
\* [0, 1) is the part of the last place that was cut
round_nearest_even(m, e, r, q) ==
    LET up == 2 * r > q \/ (2 * r = q /\ m % 2 = 1)
        m1 == IF up THEN m + 1 ELSE m
    IN  IF m1 = Pow2(24) THEN <<Pow2(23), e + 1>> ELSE <<m1, e>>

\* the binary32 nearest to the integer p * 2^e, for 0 < p < 2^31
RECURSIVE b32_round(_, _)
b32_round(p, e) ==
    IF p < Pow2(23) THEN b32_round(2 * p, e - 1)
    ELSE IF p < Pow2(24) THEN <<p, e>>
    ELSE LET s == CHOOSE s \in 1..7 : p \div Pow2(s) < Pow2(24)
                                      /\ p \div Pow2(s - 1) >= Pow2(24)
         IN  round_nearest_even(p \div Pow2(s), e + s, p % Pow2(s), Pow2(s))

\* `n as f32` for a u32 n with 0 < n < 2^31
b32_from_u32(n) == b32_round(n, 0)

\* the quotient (m + r / q) * 2^e, by long division one bit at a time until the
\* significand has 24 bits, then rounded once
RECURSIVE b32_div_bits(_, _, _, _)
b32_div_bits(m, e, r, q) ==
    IF m >= Pow2(23) THEN round_nearest_even(m, e, r, q)
    ELSE LET bit == IF 2 * r >= q THEN 1 ELSE 0
         IN  b32_div_bits(2 * m + bit, e - 1, 2 * r - bit * q, q)

\* a / b in f32
b32_div(a, b) ==
    b32_div_bits(a[1] \div b[1], a[2] - b[2], a[1] % b[1], b[1])

\* the odd part of a significand: <<m, e>> with the trailing zero bits of m
\* moved into the exponent
RECURSIVE b32_odd(_)
b32_odd(a) == IF a[1] % 2 = 0 THEN b32_odd(<<a[1] \div 2, a[2] + 1>>) ELSE a

\* a * b in f32, for a with at most 7 significant bits (1000.0 is 125 * 2^3):
\* the exact product then fits 31 bits and is rounded once
b32_mul(a, b) ==
    LET o == b32_odd(a) IN b32_round(o[1] * b[1], o[2] + b[2])

\* a > b in f32
b32_gt(a, b) == a[2] > b[2] \/ (a[2] = b[2] /\ a[1] > b[1])

\* a cast that rounds to the nearest integer
b32_as_u32_nearest(a) ==
    IF a[2] >= 0 THEN a[1] * Pow2(a[2])
    ELSE IF -a[2] > 24 THEN 0
    ELSE (2 * a[1] + Pow2(-a[2])) \div Pow2(1 - a[2])

\* `a as u32`: truncation toward zero (values below 2^31)
b32_as_u32(a) ==
    IF a[2] >= 0 THEN a[1] * Pow2(a[2])
    ELSE IF -a[2] >= 24 THEN 0
    ELSE a[1] \div Pow2(-a[2])

(* --------------------------- compute_grid_size ------------------------ *)

\* let base_units = 1000;
base_units == 1000

\* compute_grid_size with the components of the returned pair exchanged
compute_grid_size_swapped(w, h) ==
    LET aspect_ratio == b32_div(b32_from_u32(w), b32_from_u32(h)) IN
    IF b32_gt(aspect_ratio, b32_from_u32(1))
    THEN <<b32_as_u32(b32_div(b32_from_u32(base_units), aspect_ratio)), base_units>>
    ELSE <<base_units, b32_as_u32(b32_mul(b32_from_u32(base_units), aspect_ratio))>>

\* fn compute_grid_size(width: u32, height: u32) -> (u32, u32)
compute_grid_size(w, h) ==
    LET aspect_ratio == b32_div(b32_from_u32(w), b32_from_u32(h)) IN
    IF b32_gt(aspect_ratio, b32_from_u32(1))
    THEN <<base_units, b32_as_u32(b32_div(b32_from_u32(base_units), aspect_ratio))>>
    ELSE <<b32_as_u32(b32_mul(b32_from_u32(base_units), aspect_ratio)), base_units>>

\* screen sizes of real displays
ScreenSizes == {<<1920, 1080>>, <<1080, 1920>>, <<1600, 1400>>, <<1366, 768>>}

\* (width, height) handed to compute_grid_size
GridSizes == ((1..MaxDim) \X (1..MaxDim)) \cup ScreenSizes

GridInit ==
    /\ grid_in \in GridSizes
    /\ grid_out = <<>>
    /\ NoiseIdle
    /\ DrawerIdle

ComputeGridSize ==
    /\ grid_out = <<>>
    /\ grid_out' = compute_grid_size(grid_in[1], grid_in[2])
    /\ UNCHANGED <<grid_in, vars, drawer_vars>>

GridNext == ComputeGridSize

GridSpec == GridInit /\ [][GridNext]_grid_vars


(* ------------------------------ bounds -------------------------------- *)

\* most Drawer operations in one behaviour
MaxDrawerOps == 4

(* --------------------------- Drawer inputs ---------------------------- *)

\* settings::Settings values handed to Drawer::new; color_wheel stands for
\* the 24 floats of settings::color_wheel_from_scheme(&settings.color_scheme)
SettingsA ==
    [grid_spacing |-> 10, view_scale |-> F32(8, 5),
     line_width |-> F32(1, 5), line_length |-> F32(200, 1),
     line_begin_offset |-> F32(2, 5), line_opacity |-> F32(9, 10),
     line_fade_out_length |-> F32(1, 20),
     color_wheel |-> [i \in 1..24 |-> F32(i, 32)]]

SettingsB ==
    [grid_spacing |-> 300, view_scale |-> F32(1, 1),
     line_width |-> F32(1, 2), line_length |-> F32(100, 1),
     line_begin_offset |-> F32(1, 4), line_opacity |-> F32(1, 2),
     line_fade_out_length |-> F32(1, 8),
     color_wheel |-> [i \in 1..24 |-> F32(25 - i, 64)]]

DrawerSettings == {SettingsA, SettingsB}

\* timestep arguments of place_lines (seconds)
Timesteps == {F32(1, 60), F32(1, 30)}

(* ----------------------------- GL buffers ----------------------------- *)

\* std::mem::size_of::<LineState>(): 10 f32 of 4 bytes
size_of_LineState == 10 * 4

\* new_line_state with one row too many
new_line_state_extra_row(w, h, grid_spacing) ==
    LET rows == h \div grid_spacing + 1
        cols == w \div grid_spacing
    IN  [records |-> rows * cols, steps |-> <<>>, whole |-> TRUE]

\* fn new_line_state: rows * cols records, all with the same initial value.
\* steps lists the timesteps of the simulation steps the records went through,
\* whole says that every record of the buffer is in that state.
new_line_state(w, h, grid_spacing) ==
    LET rows == h \div grid_spacing
        cols == w \div grid_spacing
    IN  [records |-> rows * cols, steps |-> <<>>, whole |-> TRUE]

\* Buffer::from_f32_array(.., bytemuck::cast_slice(&line_state), ..)
line_state_buffer_from(line_state) ==
    [size |-> line_state.records * size_of_LineState,
     data |-> [steps |-> line_state.steps, whole |-> line_state.whole]]

\* bytemuck::cast_slice(&[LineUniforms {..}]) as 32 f32 words, in field order
LineUniforms(settings) ==
    << settings.line_width, settings.line_length, settings.line_begin_offset,
       settings.line_opacity, settings.line_fade_out_length,
       Zero, Zero, Zero >> \o settings.color_wheel

\* the Projection block: new_projection_matrix(grid_width, grid_height) and
\* the view matrix scaled by settings.view_scale
Projection(grid_width, grid_height, settings) ==
    [projection |-> <<grid_width, grid_height>>, view |-> settings.view_scale]

\* the vertex buffers each vertex array object pulls its attributes from
vertex_array_buffers ==
    [place_lines_buffer |-> {"basepoint_buffer", "line_state_buffer"},
     draw_lines_buffer |-> {"line_vertices", "basepoint_buffer", "line_state_buffer"},
     draw_endpoints_buffer |->
        {"circle_vertices", "basepoint_buffer", "line_state_buffer"}]

(* ----------------------------- GL context ----------------------------- *)

\* the GL state a fresh context has, with the buffers Drawer::new created
DefaultGL(screen_width, screen_height, buffers) ==
    [viewport |-> <<screen_width, screen_height>>,
     blend |-> FALSE,
     blend_func |-> <<"ONE", "ZERO">>,
     rasterizer_discard |-> FALSE,
     program |-> "None",
     vertex_array |-> "None",
     uniform_buffer |-> "None",
     uniform_buffer_base |-> <<"None", "None">>,
     transform_feedback |-> "None",
     transform_feedback_buffer |->
        [None |-> "None", transform_feedback_buffer |-> "None"],
     transform_feedback_active |-> FALSE,
     copy_read_buffer |-> "None",
     copy_write_buffer |-> "None",
     velocityTexture |-> "None",
     buffers |-> buffers]

\* the buffer bound for capture in the bound transform feedback object
capture_target(g) == g.transform_feedback_buffer[g.transform_feedback]

\* the timestep the place_lines shader reads from the LineUniforms block,
\* which set_uniform_block puts at binding point 1
shader_timestep(g) ==
    IF g.uniform_buffer_base[2] = "line_uniforms"
    THEN g.buffers["line_uniforms"].data[6]
    ELSE Zero

\* the error a GL call raises, "NO_ERROR" if none; a call that raises an error
\* has no other effect
gl_error(g, c) ==
    CASE c.call = "buffer_sub_data" ->
            IF g.uniform_buffer = "None" THEN "INVALID_OPERATION"
            ELSE IF c.offset + c.length > g.buffers[g.uniform_buffer].size
                 THEN "INVALID_VALUE" ELSE "NO_ERROR"
      [] c.call = "draw_arrays" /\ g.transform_feedback_active ->
            IF \/ capture_target(g) = "None"
               \/ g.vertex_array = "None"
            THEN "INVALID_OPERATION"
            ELSE IF \/ capture_target(g) \in vertex_array_buffers[g.vertex_array]
                    \/ c.count * size_of_LineState > g.buffers[capture_target(g)].size
                    \/ (c.first + c.count) * size_of_LineState
                            > g.buffers["line_state_buffer"].size
                 THEN "INVALID_OPERATION" ELSE "NO_ERROR"
      [] c.call = "copy_buffer_sub_data" ->
            IF g.copy_read_buffer = "None" \/ g.copy_write_buffer = "None"
            THEN "INVALID_OPERATION"
            ELSE IF \/ c.read_offset + c.size > g.buffers[g.copy_read_buffer].size
                    \/ c.write_offset + c.size > g.buffers[g.copy_write_buffer].size
                 THEN "INVALID_VALUE" ELSE "NO_ERROR"
      [] OTHER -> "NO_ERROR"

\* the points a draw captures into the feedback target: the records of the
\* vertex source advanced by one simulation step
capture(g, c) ==
    LET source == g.buffers["line_state_buffer"]
        target == g.buffers[capture_target(g)]
    IN  [target EXCEPT !.data =
            IF c.count = 0 THEN @
            ELSE [steps |-> Append(source.data.steps, shader_timestep(g)),
                  whole |-> /\ source.data.whole
                            /\ c.first = 0
                            /\ c.count * size_of_LineState = target.size]]

\* copyBufferSubData from the COPY_READ_BUFFER into the COPY_WRITE_BUFFER
copy_buffer_sub_data(g, c) ==
    LET source == g.buffers[g.copy_read_buffer]
        target == g.buffers[g.copy_write_buffer]
    IN  [target EXCEPT !.data =
            IF c.size = 0 THEN @
            ELSE [steps |-> source.data.steps,
                  whole |-> /\ source.data.whole
                            /\ c.read_offset = 0
                            /\ c.write_offset = 0
                            /\ c.size = target.size]]

\* the GL context after the call c
gl_apply(g, c) ==
    IF gl_error(g, c) # "NO_ERROR" THEN g
    ELSE CASE c.call = "viewport" -> [g EXCEPT !.viewport = <<c.width, c.height>>]
      [] c.call = "enable" /\ c.cap = "BLEND" -> [g EXCEPT !.blend = TRUE]
      [] c.call = "disable" /\ c.cap = "BLEND" -> [g EXCEPT !.blend = FALSE]
      [] c.call = "enable" /\ c.cap = "RASTERIZER_DISCARD" ->
            [g EXCEPT !.rasterizer_discard = TRUE]
      [] c.call = "disable" /\ c.cap = "RASTERIZER_DISCARD" ->
            [g EXCEPT !.rasterizer_discard = FALSE]
      [] c.call = "blend_func" -> [g EXCEPT !.blend_func = <<c.sfactor, c.dfactor>>]
      [] c.call = "use_program" -> [g EXCEPT !.program = c.program]
      [] c.call = "bind_vertex_array" -> [g EXCEPT !.vertex_array = c.vertex_array]
      [] c.call = "bind_buffer" /\ c.target = "UNIFORM_BUFFER" ->
            [g EXCEPT !.uniform_buffer = c.buffer]
      [] c.call = "bind_buffer" /\ c.target = "COPY_READ_BUFFER" ->
            [g EXCEPT !.copy_read_buffer = c.buffer]
      [] c.call = "bind_buffer" /\ c.target = "COPY_WRITE_BUFFER" ->
            [g EXCEPT !.copy_write_buffer = c.buffer]
      [] c.call = "bind_buffer_base" /\ c.target = "UNIFORM_BUFFER" ->
            [g EXCEPT !.uniform_buffer = c.buffer,
                      !.uniform_buffer_base[c.index + 1] = c.buffer]
      [] c.call = "bind_buffer_base" /\ c.target = "TRANSFORM_FEEDBACK_BUFFER" ->
            [g EXCEPT !.transform_feedback_buffer[g.transform_feedback] = c.buffer]
      [] c.call = "buffer_sub_data" ->
            [g EXCEPT !.buffers[g.uniform_buffer].data =
                buffer_sub_data(@, c.offset,
                                SubSeq(c.data, c.src_offset \div 4 + 1,
                                       (c.src_offset + c.length) \div 4))]
      [] c.call = "set_uniform" -> [g EXCEPT !.velocityTexture = c.texture]
      [] c.call = "bind_transform_feedback" ->
            [g EXCEPT !.transform_feedback = c.transform_feedback]
      [] c.call = "begin_transform_feedback" ->
            [g EXCEPT !.transform_feedback_active = TRUE]
      [] c.call = "end_transform_feedback" ->
            [g EXCEPT !.transform_feedback_active = FALSE]
      [] c.call = "draw_arrays" /\ g.transform_feedback_active ->
            [g EXCEPT !.buffers[capture_target(g)] = capture(g, c)]
      [] c.call = "copy_buffer_sub_data" ->
            [g EXCEPT !.buffers[g.copy_write_buffer] = copy_buffer_sub_data(g, c)]
      [] OTHER -> g

\* what gl_log keeps of a call: the call, the GL state it was issued in and
\* the error it raised
GlEvent(g, c) == [call |-> c, before |-> g, error |-> gl_error(g, c)]

\* the calls of a Drawer operation issued in order, from call i on
RECURSIVE gl_run(_, _, _)
gl_run(acc, calls, i) ==
    IF i > Len(calls) THEN acc
    ELSE gl_run([gl |-> gl_apply(acc.gl, calls[i]),
                 log |-> Append(acc.log, GlEvent(acc.gl, calls[i]))],
                calls, i + 1)

(* ------------------------------- Drawer ------------------------------- *)

\* Drawer::new: the fields of the Drawer and the buffers it creates
new(screen_width, screen_height, settings) ==
    LET grid == compute_grid_size(screen_width, screen_height)
        grid_width == grid[1]
        grid_height == grid[2]
        line_count ==
            (grid_width \div settings.grid_spacing)
                * (grid_height \div settings.grid_spacing)
        line_state == new_line_state(grid_width, grid_height, settings.grid_spacing)
    IN  [drawer |->
            [settings |-> settings,
             screen_width |-> screen_width,
             screen_height |-> screen_height,
             grid_width |-> grid_width,
             grid_height |-> grid_height,
             line_count |-> line_count,
             antialiasing_pass |->
                [width |-> screen_width, height |-> screen_height, samples |-> 4]],
         buffers |->
            [line_state_buffer |-> line_state_buffer_from(line_state),
             line_state_feedback_buffer |-> line_state_buffer_from(line_state),
             view_buffer |->
                [size |-> 32 * 4,
                 data |-> Projection(grid_width, grid_height, settings)],
             line_uniforms |->
                [size |-> 32 * 4, data |-> LineUniforms(settings)]]]

\* Drawer::update_settings: its body is commented out
update_settings(d, new_settings) == d

\* resize that also recomputes line_count for the new grid
resize_recomputes_line_count(d, w, h) ==
    LET grid == compute_grid_size(w, h) IN
    [d EXCEPT !.screen_width = w,
              !.screen_height = h,
              !.grid_width = grid[1],
              !.grid_height = grid[2],
              !.line_count = (grid[1] \div d.settings.grid_spacing)
                                * (grid[2] \div d.settings.grid_spacing),
              !.antialiasing_pass = [@ EXCEPT !.width = w, !.height = h]]

\* Drawer::resize
resize(d, w, h) ==
    LET grid == compute_grid_size(w, h) IN
    [d EXCEPT !.screen_width = w,
              !.screen_height = h,
              !.grid_width = grid[1],
              !.grid_height = grid[2],
              !.antialiasing_pass = [@ EXCEPT !.width = w, !.height = h]]

\* the GL calls of Drawer::place_lines, in order
place_lines_calls(d, timestep, texture) ==
    << [call |-> "viewport", width |-> d.screen_width, height |-> d.screen_height],
       [call |-> "disable", cap |-> "BLEND"],
       [call |-> "use_program", program |-> "place_lines_pass"],
       [call |-> "bind_vertex_array", vertex_array |-> "place_lines_buffer"],
       [call |-> "bind_buffer", target |-> "UNIFORM_BUFFER",
        buffer |-> "line_uniforms"],
       [call |-> "buffer_sub_data", target |-> "UNIFORM_BUFFER", offset |-> 5 * 4,
        data |-> <<timestep>>, src_offset |-> 0, length |-> 4],
       [call |-> "bind_buffer", target |-> "UNIFORM_BUFFER", buffer |-> "None"],
       [call |-> "bind_buffer_base", target |-> "UNIFORM_BUFFER", index |-> 0,
        buffer |-> "view_buffer"],
       [call |-> "bind_buffer_base", target |-> "UNIFORM_BUFFER", index |-> 1,
        buffer |-> "line_uniforms"],
       [call |-> "set_uniform", name |-> "velocityTexture", texture |-> texture],
       [call |-> "bind_transform_feedback",
        transform_feedback |-> "transform_feedback_buffer"],
       [call |-> "bind_buffer_base", target |-> "TRANSFORM_FEEDBACK_BUFFER",
        index |-> 0, buffer |-> "line_state_feedback_buffer"],
       [call |-> "enable", cap |-> "RASTERIZER_DISCARD"],
       [call |-> "begin_transform_feedback", mode |-> "POINTS"],
       [call |-> "draw_arrays", mode |-> "POINTS", first |-> 0,
        count |-> d.line_count],
       [call |-> "end_transform_feedback"],
       [call |-> "bind_buffer_base", target |-> "TRANSFORM_FEEDBACK_BUFFER",
        index |-> 0, buffer |-> "None"],
       [call |-> "bind_buffer", target |-> "COPY_WRITE_BUFFER",
        buffer |-> "line_state_buffer"],
       [call |-> "bind_buffer", target |-> "COPY_READ_BUFFER",
        buffer |-> "line_state_feedback_buffer"],
       [call |-> "copy_buffer_sub_data", read_target |-> "COPY_READ_BUFFER",
        write_target |-> "COPY_WRITE_BUFFER", read_offset |-> 0, write_offset |-> 0,
        size |-> size_of_LineState * d.line_count],
       [call |-> "bind_buffer", target |-> "COPY_READ_BUFFER", buffer |-> "None"],
       [call |-> "bind_buffer", target |-> "COPY_WRITE_BUFFER", buffer |-> "None"],
       [call |-> "bind_transform_feedback", transform_feedback |-> "None"],
       [call |-> "disable", cap |-> "RASTERIZER_DISCARD"] >>

\* place_lines that captures straight into the primary line-state buffer
place_lines_single_buffer(d, g, timestep, texture) ==
    LET calls == place_lines_calls(d, timestep, texture) IN
    gl_run([gl |-> g, log |-> <<>>],
           [k \in 1..Len(calls) |->
                IF /\ calls[k].call = "bind_buffer_base"
                   /\ calls[k].target = "TRANSFORM_FEEDBACK_BUFFER"
                   /\ calls[k].buffer # "None"
                THEN [calls[k] EXCEPT !.buffer = "line_state_buffer"]
                ELSE calls[k]],
           1)

\* place_lines that copies the primary buffer over the feedback buffer
place_lines_copies_backwards(d, g, timestep, texture) ==
    LET calls == place_lines_calls(d, timestep, texture) IN
    gl_run([gl |-> g, log |-> <<>>],
           [k \in 1..Len(calls) |->
                IF calls[k].call = "bind_buffer" /\ calls[k].buffer # "None"
                   /\ calls[k].target = "COPY_WRITE_BUFFER"
                THEN [calls[k] EXCEPT !.buffer = "line_state_feedback_buffer"]
                ELSE IF calls[k].call = "bind_buffer" /\ calls[k].buffer # "None"
                        /\ calls[k].target = "COPY_READ_BUFFER"
                     THEN [calls[k] EXCEPT !.buffer = "line_state_buffer"]
                     ELSE calls[k]],
           1)

\* place_lines that writes the timestep over line_fade_out_length
place_lines_timestep_at_16(d, g, timestep, texture) ==
    LET calls == place_lines_calls(d, timestep, texture) IN
    gl_run([gl |-> g, log |-> <<>>],
           [k \in 1..Len(calls) |->
                IF calls[k].call = "buffer_sub_data"
                THEN [calls[k] EXCEPT !.offset = 4 * 4]
                ELSE calls[k]],
           1)

\* place_lines that returns with RASTERIZER_DISCARD still enabled
place_lines_keeps_discard(d, g, timestep, texture) ==
    LET calls == place_lines_calls(d, timestep, texture) IN
    gl_run([gl |-> g, log |-> <<>>], SubSeq(calls, 1, Len(calls) - 1), 1)

\* Drawer::place_lines on the GL context g
place_lines(d, g, timestep, texture) ==
    gl_run([gl |-> g, log |-> <<>>], place_lines_calls(d, timestep, texture), 1)

\* the GL calls of Drawer::draw_lines, in order
draw_lines_calls(d) ==
    << [call |-> "viewport", width |-> d.screen_width, height |-> d.screen_height],
       [call |-> "enable", cap |-> "BLEND"],
       [call |-> "blend_func", sfactor |-> "SRC_ALPHA", dfactor |-> "ONE"],
       [call |-> "use_program", program |-> "draw_lines_pass"],
       [call |-> "bind_vertex_array", vertex_array |-> "draw_lines_buffer"],
       [call |-> "bind_buffer_base", target |-> "UNIFORM_BUFFER", index |-> 0,
        buffer |-> "view_buffer"],
       [call |-> "bind_buffer_base", target |-> "UNIFORM_BUFFER", index |-> 1,
        buffer |-> "line_uniforms"],
       [call |-> "draw_arrays_instanced", mode |-> "TRIANGLES", first |-> 0,
        count |-> 6, instance_count |-> d.line_count],
       [call |-> "disable", cap |-> "BLEND"] >>

\* draw_lines with ordinary alpha blending instead of additive blending
draw_lines_alpha_blend(d, g) ==
    LET calls == draw_lines_calls(d) IN
    gl_run([gl |-> g, log |-> <<>>],
           [k \in 1..Len(calls) |->
                IF calls[k].call = "blend_func"
                THEN [calls[k] EXCEPT !.dfactor = "ONE_MINUS_SRC_ALPHA"]
                ELSE calls[k]],
           1)

\* Drawer::draw_lines on the GL context g
draw_lines(d, g) == gl_run([gl |-> g, log |-> <<>>], draw_lines_calls(d), 1)

\* the GL calls of Drawer::draw_endpoints, in order
draw_endpoints_calls(d) ==
    << [call |-> "viewport", width |-> d.screen_width, height |-> d.screen_height],
       [call |-> "enable", cap |-> "BLEND"],
       [call |-> "blend_func", sfactor |-> "SRC_ALPHA", dfactor |-> "ONE"],
       [call |-> "use_program", program |-> "draw_endpoints_pass"],
       [call |-> "bind_vertex_array", vertex_array |-> "draw_endpoints_buffer"],
       [call |-> "bind_buffer_base", target |-> "UNIFORM_BUFFER", index |-> 0,
        buffer |-> "view_buffer"],
       [call |-> "bind_buffer_base", target |-> "UNIFORM_BUFFER", index |-> 1,
        buffer |-> "line_uniforms"],
       [call |-> "draw_arrays_instanced", mode |-> "TRIANGLE_FAN", first |-> 0,
        count |-> 10, instance_count |-> d.line_count],
       [call |-> "disable", cap |-> "BLEND"] >>

\* Drawer::draw_endpoints on the GL context g
draw_endpoints(d, g) == gl_run([gl |-> g, log |-> <<>>], draw_endpoints_calls(d), 1)

(* --------------------------- Drawer actions --------------------------- *)

DrawerInit ==
    /\ \E size \in ScreenSizes, settings \in DrawerSettings :
            LET made == new(size[1], size[2], settings) IN
            /\ drawer = made.drawer
            /\ gl = DefaultGL(size[1], size[2], made.buffers)
            /\ drawer_op = [name |-> "new", width |-> size[1], height |-> size[2]]
    /\ gl_log = <<>>
    /\ drawer_ops = 0
    /\ NoiseIdle
    /\ GridIdle

UpdateSettings ==
    \E new_settings \in DrawerSettings :
        /\ drawer_ops < MaxDrawerOps
        /\ drawer' = update_settings(drawer, new_settings)
        /\ gl_log' = <<>>
        /\ drawer_op' = [name |-> "update_settings"]
        /\ drawer_ops' = drawer_ops + 1
        /\ UNCHANGED <<gl, vars, grid_vars>>

Resize ==
    \E size \in ScreenSizes :
        /\ drawer_ops < MaxDrawerOps
        /\ drawer' = resize(drawer, size[1], size[2])
        /\ gl_log' = <<>>
        /\ drawer_op' = [name |-> "resize", width |-> size[1], height |-> size[2]]
        /\ drawer_ops' = drawer_ops + 1
        /\ UNCHANGED <<gl, vars, grid_vars>>

PlaceLines ==
    \E timestep \in Timesteps :
        LET r == place_lines(drawer, gl, timestep, "velocity") IN
        /\ drawer_ops < MaxDrawerOps
        /\ gl' = r.gl
        /\ gl_log' = r.log
        /\ drawer_op' = [name |-> "place_lines", timestep |-> timestep]
        /\ drawer_ops' = drawer_ops + 1
        /\ UNCHANGED <<drawer, vars, grid_vars>>

DrawLines ==
    LET r == draw_lines(drawer, gl) IN
    /\ drawer_ops < MaxDrawerOps
    /\ gl' = r.gl
    /\ gl_log' = r.log
    /\ drawer_op' = [name |-> "draw_lines"]
    /\ drawer_ops' = drawer_ops + 1
    /\ UNCHANGED <<drawer, vars, grid_vars>>

DrawEndpoints ==
    LET r == draw_endpoints(drawer, gl) IN
    /\ drawer_ops < MaxDrawerOps
    /\ gl' = r.gl
    /\ gl_log' = r.log
    /\ drawer_op' = [name |-> "draw_endpoints"]
    /\ drawer_ops' = drawer_ops + 1
    /\ UNCHANGED <<drawer, vars, grid_vars>>

DrawerNext ==
    \/ UpdateSettings
    \/ Resize
    \/ PlaceLines
    \/ DrawLines
    \/ DrawEndpoints

DrawerSpec == DrawerInit /\ [][DrawerNext]_drawer_vars

(* -------------------------- observation of gl_log --------------------- *)

\* the positions in a log of the calls named call
CallsOf(events, call) == {k \in 1..Len(events) : events[k].call.call = call}

\* the GL context after the k-th call of a log whose operation ended in g
GlAfter(events, k, g) == IF k < Len(events) THEN events[k + 1].before ELSE g

(* --------------------------- claims on drawer.rs ---------------------- *)

\* C13: for all positive w and h, the first component of compute_grid_size(w, h)
\* is 1000 when w > h and the second is 1000 when w <= h; both are 1000 when
\* w = h.
C13_LongAxisIs1000 ==
    grid_out # <<>> =>
        LET w == grid_in[1]
            h == grid_in[2]
        IN  /\ w > h => grid_out[1] = 1000
            /\ w <= h => grid_out[2] = 1000
            /\ w = h => grid_out = <<1000, 1000>>

\* C13 witness: a landscape size whose grid is 1000 wide and less high
C13_Witness ==
    /\ grid_in = <<4, 3>>
    /\ grid_out # <<>>
    /\ grid_out[1] = 1000
    /\ grid_out[2] < 1000

\* C14: the shorter-axis component of compute_grid_size(w, h) never exceeds
\* 1000 and is floor(1000 * h / w) when w > h, floor(1000 * w / h) when w <= h,
\* except that when this exact scaled value is an integer n the f32 rounding of
\* the aspect ratio can yield n - 1, so it differs from the exact value by at
\* most 1; (1920, 1080) gives (1000, 562) and (8, 7) gives (1000, 874).
C14_ShortAxisScaled ==
    grid_out # <<>> =>
        LET w == grid_in[1]
            h == grid_in[2]
            short == IF w > h THEN grid_out[2] ELSE grid_out[1]
            num == IF w > h THEN 1000 * h ELSE 1000 * w
            den == IF w > h THEN w ELSE h
        IN  /\ short <= 1000
            /\ num % den # 0 => short = num \div den
            /\ num % den = 0 => short \in {num \div den, num \div den - 1}
            /\ grid_in = <<1920, 1080>> => grid_out = <<1000, 562>>
            /\ grid_in = <<8, 7>> => grid_out = <<1000, 874>>

\* C14 witness: 8 x 7, where 1000 * 7 / 8 = 875 exactly and the grid is 874 high
C14_Witness ==
    /\ grid_in = <<8, 7>>
    /\ grid_out = <<1000, 874>>

\* C14 as stated: the shorter-axis component is floor(1000 * h / w) when w > h
\* and floor(1000 * w / h) when w <= h, never exceeds 1000 and differs from
\* the exact scaled value by less than 1.
C14_ShortAxisFloor ==
    grid_out # <<>> =>
        LET w == grid_in[1]
            h == grid_in[2]
            short == IF w > h THEN grid_out[2] ELSE grid_out[1]
            num == IF w > h THEN 1000 * h ELSE 1000 * w
            den == IF w > h THEN w ELSE h
        IN  /\ short <= 1000
            /\ short = num \div den
            /\ short * den <= num
            /\ num < (short + 1) * den

\* C15: in every reachable state of a Drawer (after new and after any sequence
\* of resize, place_lines and draw calls) line_count equals
\* floor(grid_width / grid_spacing) * floor(grid_height / grid_spacing) for the
\* current grid_width and grid_height; at 1920 x 1080 with grid_spacing 10 it
\* is 5600.
C15_LineCountMatchesGrid ==
    /\ drawer.line_count =
            (drawer.grid_width \div drawer.settings.grid_spacing)
                * (drawer.grid_height \div drawer.settings.grid_spacing)
    /\ (/\ drawer.screen_width = 1920
        /\ drawer.screen_height = 1080
        /\ drawer.settings.grid_spacing = 10) => drawer.line_count = 5600

\* C16: resize(w, h) sets screen_width = w, screen_height = h and
\* (grid_width, grid_height) = compute_grid_size(w, h), resizes the
\* antialiasing target to w x h and changes nothing else: line_count, the
\* settings, the line-state buffer, the feedback buffer, the projection/view
\* buffer and the line uniforms are as before the call; no operation at all
\* changes line_count.
C16_ResizeFrame ==
    [][/\ drawer'.line_count = drawer.line_count
       /\ drawer_op'.name = "resize" =>
            LET w == drawer_op'.width
                h == drawer_op'.height
            IN  /\ drawer'.screen_width = w
                /\ drawer'.screen_height = h
                /\ <<drawer'.grid_width, drawer'.grid_height>> = compute_grid_size(w, h)
                /\ drawer'.antialiasing_pass.width = w
                /\ drawer'.antialiasing_pass.height = h
                /\ drawer'.antialiasing_pass.samples = drawer.antialiasing_pass.samples
                /\ drawer'.settings = drawer.settings
                /\ gl'.buffers = gl.buffers]_drawer_vars

\* C16 witness: a resize to another aspect ratio, after which line_count is
\* still the one of the grid the Drawer was constructed with
C16_Witness ==
    /\ drawer_op.name = "resize"
    /\ drawer.screen_width = 1600
    /\ drawer.grid_height = 874
    /\ drawer.settings.grid_spacing = 10
    /\ drawer.line_count = 5600

\* C17: after construction and after any number of place_lines calls,
\* interleaved with resize and draw calls, the primary line-state buffer and
\* the feedback buffer each hold exactly line_count records of 40 bytes; the
\* copy-back of place_lines copies exactly line_count * 40 bytes from offset 0
\* of the feedback buffer to offset 0 of the primary buffer, within both.
C17_BuffersHoldLineCount ==
    /\ gl.buffers["line_state_buffer"].size = drawer.line_count * 40
    /\ gl.buffers["line_state_feedback_buffer"].size = drawer.line_count * 40
    /\ drawer_op.name = "place_lines" =>
            CallsOf(gl_log, "copy_buffer_sub_data") # {}
    /\ \A k \in CallsOf(gl_log, "copy_buffer_sub_data") :
            LET e == gl_log[k] IN
            /\ e.before.copy_read_buffer = "line_state_feedback_buffer"
            /\ e.before.copy_write_buffer = "line_state_buffer"
            /\ e.call.read_offset = 0
            /\ e.call.write_offset = 0
            /\ e.call.size = drawer.line_count * 40
            /\ e.call.size <= e.before.buffers["line_state_feedback_buffer"].size
            /\ e.call.size <= e.before.buffers["line_state_buffer"].size
            /\ e.error = "NO_ERROR"

\* C17 witness: a second place_lines of 5600 lines, issued after a resize
\* that changed the grid
C17_Witness ==
    /\ drawer_op.name = "place_lines"
    /\ drawer.line_count = 5600
    /\ drawer.grid_height = 874
    /\ Len(gl.buffers["line_state_buffer"].data.steps) >= 2
    /\ gl.buffers["line_state_buffer"].size = 224000

\* C18: in every place_lines call, while transform-feedback capture is active
\* the capture target is the feedback buffer and the vertex source is the
\* primary line-state buffer, two distinct buffers; the primary buffer is not
\* written while capture is active, only by the copy issued after
\* end_transform_feedback.
C18_CaptureDoubleBuffered ==
    drawer_op.name = "place_lines" =>
        /\ \E k \in CallsOf(gl_log, "draw_arrays") :
                gl_log[k].before.transform_feedback_active
        /\ \A k \in 1..Len(gl_log) :
                LET e == gl_log[k]
                    written == GlAfter(gl_log, k, gl).buffers["line_state_buffer"]
                                    # e.before.buffers["line_state_buffer"]
                IN  /\ e.before.transform_feedback_active =>
                        /\ capture_target(e.before) = "line_state_feedback_buffer"
                        /\ "line_state_buffer"
                                \in vertex_array_buffers[e.before.vertex_array]
                        /\ capture_target(e.before)
                                \notin vertex_array_buffers[e.before.vertex_array]
                        /\ ~written
                        /\ e.error = "NO_ERROR"
                    /\ written =>
                        /\ e.call.call = "copy_buffer_sub_data"
                        /\ ~e.before.transform_feedback_active
                        /\ \E j \in CallsOf(gl_log, "end_transform_feedback") : j < k

\* C18 witness: a place_lines whose capturing draw of 5600 points ran with
\* capture active and whose copy then changed the primary buffer
C18_Witness ==
    /\ drawer_op.name = "place_lines"
    /\ \E k \in CallsOf(gl_log, "draw_arrays") :
            /\ gl_log[k].before.transform_feedback_active
            /\ gl_log[k].call.count = 5600
    /\ \E k \in CallsOf(gl_log, "copy_buffer_sub_data") :
            GlAfter(gl_log, k, gl).buffers["line_state_buffer"]
                # gl_log[k].before.buffers["line_state_buffer"]

\* C19: within place_lines the steps occur in the order timestep write,
\* begin of capture, capturing draw of line_count points, end of capture, copy
\* of the feedback buffer into the primary buffer, each once.  When
\* place_lines returns the primary buffer equals the state captured by this
\* call: the previous primary state advanced by this call's timestep.  The
\* draws of draw_lines and draw_endpoints read the primary buffer as the last
\* operation left it.
C19_PlaceLinesOrder ==
    [][/\ drawer_op'.name = "place_lines" =>
            /\ \A call \in {"buffer_sub_data", "begin_transform_feedback",
                              "draw_arrays", "end_transform_feedback",
                              "copy_buffer_sub_data"} :
                    Cardinality(CallsOf(gl_log', call)) = 1
            /\ LET a == CHOOSE k \in CallsOf(gl_log', "buffer_sub_data") : TRUE
                   b == CHOOSE k \in CallsOf(gl_log', "begin_transform_feedback") : TRUE
                   c == CHOOSE k \in CallsOf(gl_log', "draw_arrays") : TRUE
                   d == CHOOSE k \in CallsOf(gl_log', "end_transform_feedback") : TRUE
                   e == CHOOSE k \in CallsOf(gl_log', "copy_buffer_sub_data") : TRUE
               IN  /\ a < b /\ b < c /\ c < d /\ d < e
                   /\ gl_log'[c].call.count = drawer.line_count
                   /\ gl_log'[e].before.copy_read_buffer = "line_state_feedback_buffer"
                   /\ gl_log'[e].before.copy_write_buffer = "line_state_buffer"
                   /\ gl_log'[e].before.buffers["line_state_feedback_buffer"]
                           = gl'.buffers["line_state_feedback_buffer"]
            /\ gl'.buffers["line_state_buffer"]
                    = gl'.buffers["line_state_feedback_buffer"]
            /\ drawer.line_count > 0 =>
                    gl'.buffers["line_state_buffer"].data =
                        [steps |-> Append(gl.buffers["line_state_buffer"].data.steps,
                                          drawer_op'.timestep),
                         whole |-> TRUE]
       /\ drawer_op'.name \in {"draw_lines", "draw_endpoints"} =>
            /\ CallsOf(gl_log', "draw_arrays_instanced") # {}
            /\ \A k \in CallsOf(gl_log', "draw_arrays_instanced") :
                    /\ "line_state_buffer"
                            \in vertex_array_buffers[gl_log'[k].before.vertex_array]
                    /\ gl_log'[k].before.buffers["line_state_buffer"]
                            = gl.buffers["line_state_buffer"]]_drawer_vars

\* C19 witness: two place_lines in a row; the primary buffer holds the state
\* after the steps 1/60 and 1/30, in this order
C19_Witness ==
    /\ drawer_op.name = "place_lines"
    /\ drawer_op.timestep = F32(1, 30)
    /\ gl.buffers["line_state_buffer"].data.steps = <<F32(1, 60), F32(1, 30)>>
    /\ gl.buffers["line_state_buffer"].data.whole

\* C20: each place_lines(timestep, ..) overwrites exactly the 4 bytes at byte
\* offset 20 of the LineUniforms buffer (the timestep field) with the new
\* timestep before the simulation draw is issued; line_width, line_length,
\* line_begin_offset, line_opacity, line_fade_out_length, padding and
\* color_wheel keep their construction-time values after any number of calls.
C20_TimestepWrite ==
    [][drawer_op'.name = "place_lines" =>
        LET old == gl.buffers["line_uniforms"].data
            new_ == gl'.buffers["line_uniforms"].data
        IN  /\ \E k \in 1..Len(gl_log') :
                    /\ CallsOf(gl_log', "buffer_sub_data") = {k}
                    /\ gl_log'[k].before.uniform_buffer = "line_uniforms"
                    /\ gl_log'[k].call.offset = 20
                    /\ gl_log'[k].call.length = 4
                    /\ gl_log'[k].error = "NO_ERROR"
                    /\ \A j \in CallsOf(gl_log', "draw_arrays") :
                            /\ k < j
                            /\ gl_log'[j].before.buffers["line_uniforms"].data[6]
                                    = drawer_op'.timestep
            /\ Len(new_) = 32
            /\ new_[6] = drawer_op'.timestep
            /\ \A i \in (1..32) \ {6} :
                    /\ new_[i] = old[i]
                    /\ new_[i] = LineUniforms(drawer.settings)[i]]_drawer_vars

\* C20 witness: a place_lines with timestep 1/30 after one with 1/60: the
\* word at byte offset 20 is 1/30 and line_fade_out_length is the setting's
C20_Witness ==
    /\ drawer_op.name = "place_lines"
    /\ drawer_ops >= 2
    /\ gl.buffers["line_uniforms"].data[6] = F32(1, 30)
    /\ gl.buffers["line_uniforms"].data[5] = drawer.settings.line_fade_out_length
    /\ gl.buffers["line_state_buffer"].data.steps[1] = F32(1, 60)

\* C21: draw_lines issues exactly one instanced draw, of 6 vertices with
\* line_count instances, and draw_endpoints exactly one instanced triangle-fan
\* draw with line_count instances; at the moment of each draw blending is
\* enabled with factors (SRC_ALPHA, ONE) and the Projection and LineUniforms
\* buffers are bound at uniform binding points 0 and 1; neither operation
\* modifies the line-state buffer, the feedback buffer or a uniform buffer.
C21_InstancedDraws ==
    [][drawer_op'.name \in {"draw_lines", "draw_endpoints"} =>
        /\ Cardinality(CallsOf(gl_log', "draw_arrays_instanced")) = 1
        /\ CallsOf(gl_log', "draw_arrays") = {}
        /\ LET k == CHOOSE k \in CallsOf(gl_log', "draw_arrays_instanced") : TRUE
               e == gl_log'[k]
           IN  /\ e.call.instance_count = drawer.line_count
               /\ drawer_op'.name = "draw_lines" =>
                    /\ e.call.mode = "TRIANGLES"
                    /\ e.call.first = 0
                    /\ e.call.count = 6
                    /\ e.before.vertex_array = "draw_lines_buffer"
               /\ drawer_op'.name = "draw_endpoints" =>
                    /\ e.call.mode = "TRIANGLE_FAN"
                    /\ e.before.vertex_array = "draw_endpoints_buffer"
               /\ e.before.blend
               /\ e.before.blend_func = <<"SRC_ALPHA", "ONE">>
               /\ e.before.uniform_buffer_base = <<"view_buffer", "line_uniforms">>
               /\ e.error = "NO_ERROR"
        /\ \A k \in 1..Len(gl_log') : gl_log'[k].before.buffers = gl.buffers
        /\ gl'.buffers = gl.buffers]_drawer_vars

\* C21 witness: draw_endpoints after a simulation step, drawing 5600 instances
\* with blending enabled
C21_Witness ==
    /\ drawer_op.name = "draw_endpoints"
    /\ gl.buffers["line_state_buffer"].data.steps # <<>>
    /\ \E k \in CallsOf(gl_log, "draw_arrays_instanced") :
            /\ gl_log[k].call.instance_count = 5600
            /\ gl_log[k].call.mode = "TRIANGLE_FAN"
            /\ gl_log[k].before.blend

\* C22: in every run of generate_all and generate_by_channel_number each
\* generation draw into a channel's texture is immediately followed by the
\* tick of that same channel with the same elapsed_time, and no channel is
\* ticked whose generation draw was not issued just before in that call; the
\* draw uses the uniform buffer as it was before the call, with the offsets
\* from before the increment.
C22_DrawThenTick ==
    [][op'.name \in {"generate_all", "generate_by_channel_number"} =>
        \A k \in 1..Len(log') :
            /\ log'[k].ev = "draw" =>
                /\ log'[k].pass = "generate"
                /\ k < Len(log')
                /\ log'[k + 1].ev = "tick"
                /\ log'[k + 1].channel = log'[k].channel
                /\ log'[k + 1].elapsed_time = op'.elapsed_time
                /\ log'[k].uniforms = channels[log'[k].channel + 1].uniforms
                /\ channels'[log'[k].channel + 1].texture.uniforms
                        = channels[log'[k].channel + 1].uniforms
            /\ log'[k].ev = "tick" =>
                /\ k > 1
                /\ log'[k - 1].ev = "draw"
                /\ log'[k - 1].pass = "generate"
                /\ log'[k - 1].channel = log'[k].channel]_vars

\* C22 witness: a generate_all that ran the generation pass of two channels:
\* draw 0, tick 0, draw 1, tick 1
C22_Witness ==
    /\ op.name = "generate_all"
    /\ Len(log) = 4
    /\ log[1].ev = "draw" /\ log[1].channel = 0
    /\ log[2].ev = "tick" /\ log[2].channel = 0
    /\ log[3].ev = "draw" /\ log[3].channel = 1
    /\ log[4].ev = "tick" /\ log[4].channel = 1

\* C23: between any two public Drawer operations the GL state is restored:
\* after place_lines returns RASTERIZER_DISCARD is disabled, no transform
\* feedback object and no feedback buffer is bound, capture is not active and
\* COPY_READ_BUFFER and COPY_WRITE_BUFFER are unbound; after draw_lines and
\* draw_endpoints return BLEND is disabled.  Hence, starting from the default
\* GL state, in any sequence of place_lines, draw_lines, draw_endpoints and
\* resize no instanced draw runs with rasterizer discard enabled and no
\* simulation draw runs with blending enabled.
C23_GlStateRestored ==
    /\ drawer_op.name = "place_lines" =>
            /\ ~gl.rasterizer_discard
            /\ gl.transform_feedback = "None"
            /\ gl.transform_feedback_buffer["None"] = "None"
            /\ gl.transform_feedback_buffer["transform_feedback_buffer"] = "None"
            /\ ~gl.transform_feedback_active
            /\ gl.copy_read_buffer = "None"
            /\ gl.copy_write_buffer = "None"
    /\ drawer_op.name \in {"draw_lines", "draw_endpoints"} => ~gl.blend
    /\ \A k \in CallsOf(gl_log, "draw_arrays_instanced") :
            /\ ~gl_log[k].before.rasterizer_discard
            /\ ~gl_log[k].before.transform_feedback_active
    /\ \A k \in CallsOf(gl_log, "draw_arrays") : ~gl_log[k].before.blend

\* C23 witness: draw_lines issued after a place_lines; its draw ran with
\* rasterizer discard disabled and it returned with blending disabled
C23_Witness ==
    /\ drawer_op.name = "draw_lines"
    /\ gl.buffers["line_state_buffer"].data.steps # <<>>
    /\ ~gl.blend
    /\ \E k \in CallsOf(gl_log, "draw_arrays_instanced") :
            /\ gl_log[k].before.blend
            /\ ~gl_log[k].before.rasterizer_discard

C25_BufferOffsetsAreAccumulators ==
    \A i \in 1..Len(channels) :
        /\ channels[i].uniforms[2] = channels[i].offset1
        /\ channels[i].uniforms[3] = channels[i].offset2

====
